---- MODULE Spec2Model ----
(***************************************************************************)
(* A model of src/msg/XioMessenger.cc: the send path of XioMessenger       *)
(* (send_message with its two buffer passes xio_count_buffers and          *)
(* xio_place_buffers) and the connection registry (get_connection,         *)
(* try_insert and session_event).                                          *)
(*                                                                         *)
(* Two specifications share the module.  SpecSend runs one send_message    *)
(* call over every message within the bounds; SpecReg runs caller threads  *)
(* and transport events against the registry.  Each leaves the other's     *)
(* variables untouched.                                                    *)
(***************************************************************************)
EXTENDS Integers, Sequences, FiniteSets, TLC

(***************************************************************************)
(* Sizes.  The two caps of the program are far too large to enumerate      *)
(* (MAX_XIO_BUF_SIZE is 1044480 at XioMessenger.cc:406 and XIO_MSGR_IOVLEN *)
(* comes from XioMsg.h); the model runs the same code over small caps, and *)
(* every formula below is stated in terms of the two names, never of their *)
(* values.                                                                 *)
(***************************************************************************)
XIO_MSGR_IOVLEN == 2

MAX_XIO_BUF_SIZE == 3

\* most fragments of one message, over the three regions together
MaxFrags == 3

\* most bytes of one message, over the three regions together
MaxBytes == 7

\* most closed / disconnected / refused events the transport delivers in
\* one run, over all connections
MaxDiscEvents == 2

K == XIO_MSGR_IOVLEN

B == MAX_XIO_BUF_SIZE

VARIABLES
  \* ---- send path ----
  msg,          \* the Message: [payload, middle, data], each a sequence of fragment lengths
  con,          \* the Connection handed to send_message: "loop_con" or "xcon"
  connected,    \* xcon->connected
  pc,           \* position of the send_message call
  msg_off,      \* int msg_off
  req_off,      \* int req_off
  req_size,     \* int req_size
  nbuffers,     \* int nbuffers
  ex_cnt,       \* int ex_cnt
  xmsg,         \* the XioMsg frame, or NoXioMsg before pool_alloc_xio_msg
  req,          \* struct xio_msg *req (with msg_iov = req->out.pdata_iov)
  sendq,        \* what enqueue_for_send has put on the portal
  dispatched,   \* number of ds_dispatch calls
  ret,          \* return value of send_message
  trap,         \* a store through the poisoned request pointer has happened
  \* ---- registry ----
  xcons,            \* the XioConnection objects: type, peer, connected, nref
  tconn,            \* the transport's side of each connection: its state and the events delivered
  conns_list,       \* XioMessenger::conns_list
  conns_entity_map, \* XioMessenger::conns_entity_map
  thr,              \* the get_connection call of each caller thread
  hist,             \* per connection: what session_event has done to it so far
  fault,            \* "none", or what has gone wrong in the process
  \* ---- package initialization ----
  initialized,      \* atomic_t initialized
  mtx,              \* Mutex mtx: the set holding the constructor that has locked it
  ctor,             \* position of each XioMessenger constructor
  pkg,              \* what the package initialization body has done, step by step
  nInstances,       \* XioMessenger::nInstances
  \* ---- the registry lock ----
  conns_sp,         \* Spinlock conns_sp: the set holding the worker that has locked it
  work              \* per worker: the operation it runs and the statement it is at

sendVars == <<msg, con, connected, pc, msg_off, req_off, req_size, nbuffers,
              ex_cnt, xmsg, req, sendq, dispatched, ret, trap>>

regVars == <<xcons, tconn, conns_list, conns_entity_map, thr, hist, fault>>

pkgVars == <<initialized, mtx, ctor, pkg, nInstances>>

lockVars == <<conns_sp, work>>

vars == <<sendVars, regVars, pkgVars, lockVars>>

----------------------------------------------------------------------------
(***************************************************************************)
(* XioMessenger::XioMessenger (XioMessenger.cc:195-275): the package        *)
(* initialization, run by constructors on several threads of one process   *)
(***************************************************************************)

\* the threads that construct an XioMessenger each
Ctors == {1, 2, 3}

\* nothing of the package set up yet
NoPkg == [xio_init |-> 0, mempool |-> 0, ops |-> 0]

\* line 211: if (! initialized.read())
CtorCheck(t) ==
  /\ ctor[t] = "check"
  /\ ctor' = [ctor EXCEPT ![t] = IF initialized = 0 THEN "lock" ELSE "after"]
  /\ UNCHANGED <<sendVars, regVars, lockVars, initialized, mtx, pkg, nInstances>>

\* line 213: mtx.Lock()
CtorLock(t) ==
  /\ ctor[t] = "lock"
  /\ mtx = {}
  /\ mtx' = {t}
  /\ ctor' = [ctor EXCEPT ![t] = "recheck"]
  /\ UNCHANGED <<sendVars, regVars, lockVars, initialized, pkg, nInstances>>

\* fault injection: no second test of the flag under the lock
CtorRecheck_NoTest(t) ==
  /\ ctor[t] = "recheck"
  /\ ctor' = [ctor EXCEPT ![t] = "xio_init"]
  /\ UNCHANGED <<sendVars, regVars, lockVars, initialized, mtx, pkg, nInstances>>

\* line 214: if (! initialized.read()), with the lock held
CtorRecheck(t) ==
  /\ ctor[t] = "recheck"
  /\ ctor' = [ctor EXCEPT ![t] = IF initialized = 0 THEN "xio_init" ELSE "unlock"]
  /\ UNCHANGED <<sendVars, regVars, lockVars, initialized, mtx, pkg, nInstances>>

\* lines 216-234: xio_init and the transport options
CtorXioInit(t) ==
  /\ ctor[t] = "xio_init"
  /\ pkg' = [pkg EXCEPT !.xio_init = @ + 1]
  /\ ctor' = [ctor EXCEPT ![t] = "mempool"]
  /\ UNCHANGED <<sendVars, regVars, lockVars, initialized, mtx, nInstances>>

\* lines 236-251: the memory pool and its allocators
CtorMempool(t) ==
  /\ ctor[t] = "mempool"
  /\ pkg' = [pkg EXCEPT !.mempool = @ + 1]
  /\ ctor' = [ctor EXCEPT ![t] = "ops"]
  /\ UNCHANGED <<sendVars, regVars, lockVars, initialized, mtx, nInstances>>

\* lines 253-262: the callback table xio_msgr_ops
CtorOps(t) ==
  /\ ctor[t] = "ops"
  /\ pkg' = [pkg EXCEPT !.ops = @ + 1]
  /\ ctor' = [ctor EXCEPT ![t] = "mark"]
  /\ UNCHANGED <<sendVars, regVars, lockVars, initialized, mtx, nInstances>>

\* line 265: initialized.set(1)
CtorMark(t) ==
  /\ ctor[t] = "mark"
  /\ initialized' = 1
  /\ ctor' = [ctor EXCEPT ![t] = "unlock"]
  /\ UNCHANGED <<sendVars, regVars, lockVars, mtx, pkg, nInstances>>

\* line 267: mtx.Unlock()
CtorUnlock(t) ==
  /\ ctor[t] = "unlock"
  /\ mtx' = mtx \ {t}
  /\ ctor' = [ctor EXCEPT ![t] = "after"]
  /\ UNCHANGED <<sendVars, regVars, lockVars, initialized, pkg, nInstances>>

\* lines 270-273: set_messenger and nInstances.inc()
CtorFinish(t) ==
  /\ ctor[t] = "after"
  /\ nInstances' = nInstances + 1
  /\ ctor' = [ctor EXCEPT ![t] = "done"]
  /\ UNCHANGED <<sendVars, regVars, lockVars, initialized, mtx, pkg>>

\* the threads that run operations on the registry: callers of
\* get_connection and try_insert, and portal threads in session_event
Workers == {1, 2}

\* no worker is inside an operation on the registry
LockIdle ==
  /\ conns_sp = {}
  /\ work = [w \in Workers |-> [path |-> "none", at |-> 1]]

\* the process once its constructors have run: what the send path and the
\* registry start from
PkgReady ==
  /\ LockIdle
  /\ initialized = 1
  /\ mtx = {}
  /\ ctor = [t \in Ctors |-> "done"]
  /\ pkg = [xio_init |-> 1, mempool |-> 1, ops |-> 1]
  /\ nInstances = Cardinality(Ctors)

----------------------------------------------------------------------------
(***************************************************************************)
(* Data of the send path                                                   *)
(***************************************************************************)

\* enum bl_type
BUFFER_PAYLOAD == "payload"

BUFFER_MIDDLE == "middle"

BUFFER_DATA == "data"

\* req = 0 (the poisoned pointer); 1 is &xmsg->req_0.msg and i + 2 is
\* &xmsg->req_arr[i].msg
NullReq == 0

Req0Ptr == NullReq + 1

ReqArrPtr(i) == i + 2

\* an iovec slot nothing has been written to
NoIov == [type |-> "none", frag |-> 0, off |-> 0, len |-> 0]

\* one struct xio_msg as the XioMsg constructor leaves it
EmptyReq ==
  [pdata_iov     |-> [s \in 0..(K - 1) |-> NoIov],
   data_iovlen   |-> 0,
   more_in_batch |-> 0,
   header        |-> FALSE,
   next          |-> NullReq]

NoXioMsg == [msg_cnt |-> 0, req_0 |-> EmptyReq, req_arr |-> <<>>]

\* XioMsg::XioMsg(m, xcon, mp, ex_cnt): hdr.msg_cnt = ex_cnt + 1 and ex_cnt
\* trailing requests
NewXioMsg(cnt) ==
  [msg_cnt |-> cnt + 1,
   req_0   |-> EmptyReq,
   req_arr |-> [i \in 1..cnt |-> EmptyReq]]

Deref(x, p) == IF p = Req0Ptr THEN x.req_0 ELSE x.req_arr[p - 1]

Store(x, p, r) ==
  IF p = Req0Ptr THEN [x EXCEPT !.req_0 = r]
  ELSE [x EXCEPT !.req_arr[p - 1] = r]

\* the length of fragment i of a buffer list; 0 stands for "before begin()"
FragSize(bl, i) == IF i = 0 THEN 0 ELSE bl[i]

----------------------------------------------------------------------------
(***************************************************************************)
(* xio_count_buffers (XioMessenger.cc:408-451)                             *)
(***************************************************************************)

\* count = size - off, cut to what the request still takes (lines 430-434)
CountChunk(rsize, whole) ==
  IF rsize + whole > MAX_XIO_BUF_SIZE THEN MAX_XIO_BUF_SIZE - rsize ELSE whole

\* fault injection: the entry cap tested one entry late
CountFull_OneLate(moff, rsize) ==
  moff > XIO_MSGR_IOVLEN \/ rsize >= MAX_XIO_BUF_SIZE

\* the test that closes a request (line 443)
CountFull(moff, rsize) ==
  moff >= XIO_MSGR_IOVLEN \/ rsize >= MAX_XIO_BUF_SIZE

\* one turn of the for (;;) loop: pb is at fragment i, off bytes of it are
\* consumed; st carries result and the three reference parameters
RECURSIVE CountLoop(_, _, _, _)
CountLoop(bl, i, off, st) ==
  IF off >= FragSize(bl, i)
  THEN \* if (first) pb = buffers.begin(); else ++pb;
       IF i + 1 > Len(bl) THEN st
       ELSE CountLoop(bl, i + 1, 0, st)
  ELSE LET size   == FragSize(bl, i)
           whole  == size - off
           count  == CountChunk(st.req_size, whole)
           rsize  == st.req_size + count
           moff   == st.msg_off + 1
           full   == CountFull(moff, rsize)
       IN  CountLoop(bl, i, off + count,
                     [result   |-> st.result + 1,
                      req_size |-> IF full THEN 0 ELSE rsize,
                      msg_off  |-> IF full THEN 0 ELSE moff,
                      req_off  |-> IF full THEN st.req_off + 1 ELSE st.req_off])

\* the same loop, keeping what each turn decides: the length of the entry
\* and whether the request is closed after it
RECURSIVE CountTrace(_, _, _, _)
CountTrace(bl, i, off, st) ==
  IF off >= FragSize(bl, i)
  THEN IF i + 1 > Len(bl) THEN st
       ELSE CountTrace(bl, i + 1, 0, st)
  ELSE LET count == CountChunk(st.req_size, FragSize(bl, i) - off)
           rsize == st.req_size + count
           moff  == st.msg_off + 1
           full  == CountFull(moff, rsize)
       IN  CountTrace(bl, i, off + count,
                      [out      |-> Append(st.out, <<count, full>>),
                       req_size |-> IF full THEN 0 ELSE rsize,
                       msg_off  |-> IF full THEN 0 ELSE moff])

\* the decisions of the three count passes over a message (lines 635-638)
CountDecisions(m) ==
  LET t0 == [out |-> <<>>, req_size |-> 0, msg_off |-> 0]
      t1 == CountTrace(m.payload, 0, 0, t0)
      t2 == CountTrace(m.middle, 0, 0, t1)
      t3 == CountTrace(m.data, 0, 0, t2)
  IN  t3.out

\* the call: result starts at 0, the reference parameters are carried over
xio_count_buffers(bl, rsize, moff, roff) ==
  CountLoop(bl, 0, 0,
            [result |-> 0, req_size |-> rsize, msg_off |-> moff, req_off |-> roff])

(***************************************************************************)
(* xio_place_buffers (XioMessenger.cc:453-524)                             *)
(***************************************************************************)

\* fault injection: iov_base set to the start of the fragment
AssignBuffer_BaseOnly(x, p, slot, type, i, off, count) ==
  LET r == Deref(x, p)
  IN  Store(x, p, [r EXCEPT !.pdata_iov[slot] =
                     [type |-> type, frag |-> i, off |-> 0, len |-> count]])

\* the store iov = &msg_iov[msg_off]; iov->iov_base = &data[off];
\* iov->iov_len = count, into the request req points to
AssignBuffer(x, p, slot, type, i, off, count) ==
  LET r == Deref(x, p)
  IN  Store(x, p, [r EXCEPT !.pdata_iov[slot] =
                     [type |-> type, frag |-> i, off |-> off, len |-> count]])

\* "finish this request": data_iovlen and more_in_batch of the request just
\* filled
FinishRequest(x, p, moff) ==
  LET r == Deref(x, p)
  IN  Store(x, p, [r EXCEPT !.data_iovlen = moff, !.more_in_batch = 1])

\* fault injection: the trailing requests taken from the end of req_arr
NextRequest_FromEnd(roff, cnt) ==
  IF roff >= cnt THEN NullReq ELSE ReqArrPtr(cnt - 1 - roff)

\* "advance to next, and write in it if it's not the last one": the new
\* value of req after ++req_off
NextRequest(roff, cnt) ==
  IF roff >= cnt THEN NullReq ELSE ReqArrPtr(roff)

\* fault injection: the place pass without the cut to the request's room
PlaceChunk_NoCut(rsize, whole) == whole

\* count = size - off, cut to what the request still takes (lines 478-482)
PlaceChunk(rsize, whole) ==
  IF rsize + whole > MAX_XIO_BUF_SIZE THEN MAX_XIO_BUF_SIZE - rsize ELSE whole

\* fault injection: the place pass closing a request on bytes alone
PlaceFull_BytesOnly(moff, rsize) == rsize >= MAX_XIO_BUF_SIZE

\* the test that closes a request (line 508)
PlaceFull(moff, rsize) ==
  moff >= XIO_MSGR_IOVLEN \/ rsize >= MAX_XIO_BUF_SIZE

RECURSIVE PlaceLoop(_, _, _, _, _, _)
PlaceLoop(bl, type, cnt, i, off, st) ==
  IF off >= FragSize(bl, i)
  THEN IF i + 1 > Len(bl) THEN st
       ELSE PlaceLoop(bl, type, cnt, i + 1, 0, st)
  ELSE LET size   == FragSize(bl, i)
           whole  == size - off
           count  == PlaceChunk(st.req_size, whole)
           rsize  == st.req_size + count
           moff   == st.msg_off + 1
           full   == PlaceFull(moff, rsize)
       IN  IF st.req = NullReq
           THEN \* a store through msg_iov == NULL: the walk stops here and
                \* the caller decides what the fault does
                [st EXCEPT !.trap = TRUE]
           ELSE LET x1   == AssignBuffer(st.xmsg, st.req, st.msg_off, type, i, off, count)
                    x2   == IF full THEN FinishRequest(x1, st.req, moff) ELSE x1
                    roff == IF full THEN st.req_off + 1 ELSE st.req_off
                IN  PlaceLoop(bl, type, cnt, i, off + count,
                              [xmsg     |-> x2,
                               req      |-> IF full THEN NextRequest(roff, cnt) ELSE st.req,
                               req_size |-> IF full THEN 0 ELSE rsize,
                               msg_off  |-> IF full THEN 0 ELSE moff,
                               req_off  |-> roff,
                               trap     |-> st.trap])

xio_place_buffers(bl, x, p, rsize, cnt, moff, roff, type) ==
  PlaceLoop(bl, type, cnt, 0, 0,
            [xmsg |-> x, req |-> p, req_size |-> rsize, msg_off |-> moff,
             req_off |-> roff, trap |-> FALSE])

----------------------------------------------------------------------------
(***************************************************************************)
(* Data of the registry                                                    *)
(***************************************************************************)

\* the caller threads; each makes one get_connection call
Threads == {1, 2}

\* remote peer addresses (after the port shift of lines 758-762)
Addrs == {"a1", "a2"}

\* the destinations a caller asks for; the addresses are interchangeable,
\* so the first caller's remote destination is the first address
DestsOf(t) == IF t = 1 THEN {"a1", "self"} ELSE Addrs \cup {"self"}

\* the messenger's own instance, get_myinst()
SelfInst == "self"

\* return NULL (line 793)
NoConn == 0

\* the XioConnection a thread's call constructs, and the one a
\* new-connection event constructs for a peer that connects to this
\* messenger
ActiveId(t) == t

PassiveIds == {Cardinality(Threads) + 1}

ConnIds == Threads \cup PassiveIds

\* &loop_con
LoopCon == Cardinality(ConnIds) + 1

\* an XioConnection not constructed yet
NoXcon ==
  [alive |-> FALSE, type |-> "none", peer |-> "none", connected |-> FALSE,
   nref |-> 0]

\* new XioConnection(this, type, peer): nref 0, not connected
NewXcon(type, peer) ==
  [alive |-> TRUE, type |-> type, peer |-> peer, connected |-> FALSE,
   nref |-> 0]

NoHist ==
  [connects |-> 0, map_erased |-> 0, list_erased |-> 0, disc_calls |-> 0,
   at_disc |-> "none"]

InList(c) == \E n \in 1..Len(conns_list) : conns_list[n] = c

\* conns_entity_map.find(peer, EntityComp()): the connection filed under
\* the peer, NoConn for end()
EntityFind(map, peer) ==
  IF \E c \in map : xcons[c].peer = peer
  THEN CHOOSE c \in map : xcons[c].peer = peer
  ELSE NoConn

\* conns_entity_map.insert(*xcon): a set keeps one element per key, the
\* insert of a second one with the same peer leaves the set as it is
EntityInsert(map, c) ==
  IF EntityFind(map, xcons[c].peer) # NoConn THEN map ELSE map \cup {c}

\* conns_list.erase(citer)
ListErase(list, c) == SelectSeq(list, LAMBDA d : d # c)

RegIdle ==
  /\ xcons = [c \in ConnIds |-> NoXcon]
  /\ tconn = [c \in ConnIds |-> [state |-> "none", discs |-> 0]]
  /\ conns_list = <<>>
  /\ conns_entity_map = {}
  /\ thr = [t \in Threads |-> [pc |-> "idle", dest |-> "none", result |-> NoConn]]
  /\ hist = [c \in ConnIds |-> NoHist]
  /\ fault = "none"

----------------------------------------------------------------------------
(***************************************************************************)
(* XioMessenger::send_message, the overload taking a Connection            *)
(* (XioMessenger.cc:605-741), one call                                     *)
(***************************************************************************)

ENOTCONN == "ENOTCONN"

ENOMEM == "ENOMEM"

\* every sequence of at most MaxFrags fragment lengths with at most MaxBytes
\* bytes in all; a fragment may be empty
RECURSIVE SumSeq(_)
SumSeq(s) == IF s = <<>> THEN 0 ELSE Head(s) + SumSeq(Tail(s))

FragSeqs ==
  {s \in UNION {[1..n -> 0..MaxBytes] : n \in 0..MaxFrags} : SumSeq(s) <= MaxBytes}

\* the buffer lists of a message whose fragments are s, the first i in the
\* payload, the next j - i in the middle, the rest in the data
MessageOf(s, i, j) ==
  [payload |-> SubSeq(s, 1, i),
   middle  |-> SubSeq(s, i + 1, j),
   data    |-> SubSeq(s, j + 1, Len(s))]

InitSend ==
  /\ \E s \in FragSeqs : \E i \in 0..Len(s) : \E j \in i..Len(s) :
       msg = MessageOf(s, i, j)
  \* the loopback connection, or an XioConnection whose connected flag is
  \* set or clear
  /\ \E c \in {<<"loop_con", TRUE>>, <<"xcon", TRUE>>, <<"xcon", FALSE>>} :
       con = c[1] /\ connected = c[2]
  /\ pc = "entry"
  /\ msg_off = 0
  /\ req_off = 0
  /\ req_size = 0
  /\ nbuffers = 0
  /\ ex_cnt = 0
  /\ xmsg = NoXioMsg
  /\ req = NullReq
  /\ sendq = <<>>
  /\ dispatched = 0
  /\ ret = "none"
  /\ trap = FALSE
  /\ RegIdle
  /\ PkgReady

\* fault injection: the loopback branch falling through to the portal
SendLoopback_Enqueue ==
  /\ pc = "entry"
  /\ con = "loop_con"
  /\ dispatched' = dispatched + 1
  /\ sendq' = Append(sendq, xmsg)
  /\ ret' = "true"
  /\ pc' = "returned"
  /\ UNCHANGED <<regVars, pkgVars, lockVars, msg, con, connected, msg_off, req_off, req_size, nbuffers,
                 ex_cnt, xmsg, req, trap>>

\* lines 607-612: the loopback connection
SendLoopback ==
  /\ pc = "entry"
  /\ con = "loop_con"
  /\ dispatched' = dispatched + 1
  /\ ret' = "true"
  /\ pc' = "returned"
  /\ UNCHANGED <<regVars, pkgVars, lockVars, msg, con, connected, msg_off, req_off, req_size, nbuffers,
                 ex_cnt, xmsg, req, sendq, trap>>

\* fault injection: the test of line 615 without its return
SendNotConnected_NoReturn ==
  /\ pc = "entry"
  /\ con = "xcon"
  /\ ~connected
  /\ ret' = "ENOTCONN"
  /\ pc' = "alloc"
  /\ UNCHANGED <<regVars, pkgVars, lockVars, msg, con, connected, msg_off, req_off, req_size, nbuffers,
                 ex_cnt, xmsg, req, sendq, dispatched, trap>>

\* lines 614-616: if (! xcon->is_connected()) return ENOTCONN;
SendNotConnected ==
  /\ pc = "entry"
  /\ con = "xcon"
  /\ ~connected
  /\ ret' = ENOTCONN
  /\ pc' = "returned"
  /\ UNCHANGED <<regVars, pkgVars, lockVars, msg, con, connected, msg_off, req_off, req_size, nbuffers,
                 ex_cnt, xmsg, req, sendq, dispatched, trap>>

\* fault injection: the empty last request kept
ExCnt_KeepLast(roff, moff) == roff

\* lines 640-645: the requests after req_0; the request the count pass
\* opened last is dropped when nothing went into it
ExCnt(roff, moff) ==
  IF moff = 0 /\ roff > 0 THEN roff - 1 ELSE roff

\* lines 618-645: encode, then the count pass over payload, middle, data
SendCount ==
  /\ pc = "entry"
  /\ con = "xcon"
  /\ connected
  /\ LET c1 == xio_count_buffers(msg.payload, 0, 0, 0)
         c2 == xio_count_buffers(msg.middle, c1.req_size, c1.msg_off, c1.req_off)
         c3 == xio_count_buffers(msg.data, c2.req_size, c2.msg_off, c2.req_off)
     IN  /\ nbuffers' = c1.result + c2.result + c3.result
         /\ msg_off' = c3.msg_off
         /\ req_off' = c3.req_off
         /\ req_size' = c3.req_size
         /\ ex_cnt' = ExCnt(c3.req_off, c3.msg_off)
  /\ pc' = "alloc"
  /\ UNCHANGED <<regVars, pkgVars, lockVars, msg, con, connected, xmsg, req, sendq, dispatched, ret, trap>>

\* lines 647-652: pool_alloc_xio_msg fails
SendAllocFail ==
  /\ pc = "alloc"
  /\ ret' = ENOMEM
  /\ pc' = "returned"
  /\ UNCHANGED <<regVars, pkgVars, lockVars, msg, con, connected, msg_off, req_off, req_size, nbuffers,
                 ex_cnt, xmsg, req, sendq, dispatched, trap>>

\* lines 647-691: the XioMsg frame, req = &xmsg->req_0.msg, and the locals
\* reset for the place pass
SendAlloc ==
  /\ pc = "alloc"
  /\ xmsg' = NewXioMsg(ex_cnt)
  /\ req' = Req0Ptr
  /\ msg_off' = 0
  /\ req_off' = -1
  /\ req_size' = 0
  /\ pc' = "place_payload"
  /\ UNCHANGED <<regVars, pkgVars, lockVars, msg, con, connected, nbuffers, ex_cnt, sendq, dispatched,
                 ret, trap>>

\* one xio_place_buffers call of lines 693-700
PlaceCall(bl, type, next) ==
  LET p == xio_place_buffers(bl, xmsg, req, req_size, ex_cnt, msg_off, req_off, type)
  IN  /\ xmsg' = p.xmsg
      /\ req' = p.req
      /\ req_size' = p.req_size
      /\ msg_off' = p.msg_off
      /\ req_off' = p.req_off
      /\ trap' = p.trap
      \* the store through a null pointer is undefined: the call faults
      \* there, or the store is lost and the call goes on
      /\ IF p.trap THEN pc' \in {"fault", next} ELSE pc' = next
      /\ UNCHANGED <<regVars, pkgVars, lockVars, msg, con, connected, nbuffers, ex_cnt, sendq, dispatched, ret>>

SendPlacePayload ==
  /\ pc = "place_payload"
  /\ PlaceCall(msg.payload, BUFFER_PAYLOAD, "place_middle")

SendPlaceMiddle ==
  /\ pc = "place_middle"
  /\ PlaceCall(msg.middle, BUFFER_MIDDLE, "place_data")

SendPlaceData ==
  /\ pc = "place_data"
  /\ PlaceCall(msg.data, BUFFER_DATA, "finalize")

\* fault injection: the last request's data_iovlen left unset
SendFinalize_NoIovlen ==
  /\ pc = "finalize"
  /\ xmsg' = [xmsg EXCEPT !.req_0.header = TRUE]
  /\ req' = Req0Ptr
  /\ pc' = "link"
  /\ UNCHANGED <<regVars, pkgVars, lockVars, msg, con, connected, msg_off, req_off, req_size, nbuffers,
                 ex_cnt, sendq, dispatched, ret, trap>>

\* lines 704-723: data_iovlen of the request being filled, and the header
\* iovec on req_0
SendFinalize ==
  /\ pc = "finalize"
  /\ LET x1 == IF msg_off # 0 /\ req # NullReq
               THEN Store(xmsg, req, [Deref(xmsg, req) EXCEPT !.data_iovlen = msg_off])
               ELSE xmsg
     IN  xmsg' = [x1 EXCEPT !.req_0.header = TRUE]
  /\ trap' = (trap \/ (msg_off # 0 /\ req = NullReq))
  /\ req' = Req0Ptr
  /\ pc' = "link"
  /\ UNCHANGED <<regVars, pkgVars, lockVars, msg, con, connected, msg_off, req_off, req_size, nbuffers,
                 ex_cnt, sendq, dispatched, ret>>

\* the loop of lines 729-735 from req_off = i on, tail being the request
\* linked last
RECURSIVE LinkLoop(_, _, _)
LinkLoop(x, tail, i) ==
  IF i >= x.msg_cnt - 1 THEN [xmsg |-> x, tail |-> tail, req_off |-> i]
  ELSE LinkLoop(Store(x, tail, [Deref(x, tail) EXCEPT !.next = ReqArrPtr(i)]),
                ReqArrPtr(i), i + 1)

\* assert(req->out.data_iovlen || !nbuffers) of line 732, over the requests
\* the loop visits
LinkAsserts(x, nbuf) ==
  \A i \in 1..(x.msg_cnt - 1) : x.req_arr[i].data_iovlen # 0 \/ nbuf = 0

\* lines 725-740: link the requests, hand the frame to the portal
SendSubmit ==
  /\ pc = "link"
  /\ IF xmsg.msg_cnt > 1
     THEN IF LinkAsserts(xmsg, nbuffers)
          THEN LET l  == LinkLoop(xmsg, Req0Ptr, 0)
                   x2 == Store(l.xmsg, l.tail, [Deref(l.xmsg, l.tail) EXCEPT !.next = NullReq])
               IN  /\ xmsg' = x2
                   /\ req_off' = l.req_off
                   /\ req' = l.tail
                   /\ sendq' = Append(sendq, x2)
                   /\ ret' = "0"
                   /\ pc' = "returned"
          ELSE /\ pc' = "abort"
               /\ UNCHANGED <<xmsg, req_off, req, sendq, ret>>
     ELSE /\ sendq' = Append(sendq, xmsg)
          /\ ret' = "0"
          /\ pc' = "returned"
          /\ UNCHANGED <<xmsg, req_off, req>>
  /\ UNCHANGED <<regVars, pkgVars, lockVars, msg, con, connected, msg_off, req_size, nbuffers, ex_cnt,
                 dispatched, trap>>

NextSend ==
  \/ SendLoopback
  \/ SendNotConnected
  \/ SendCount
  \/ SendAllocFail
  \/ SendAlloc
  \/ SendPlacePayload
  \/ SendPlaceMiddle
  \/ SendPlaceData
  \/ SendFinalize
  \/ SendSubmit

SpecSend == InitSend /\ [][NextSend]_vars

----------------------------------------------------------------------------
(***************************************************************************)
(* Reading a submitted frame the way the transport does                    *)
(***************************************************************************)

\* send_message has handed a frame to the portal
Submitted == pc = "returned" /\ Len(sendq) > 0

\* the frame on the portal's queue
Sent == sendq[Len(sendq)]

\* the requests of a frame from p on, following next
RECURSIVE ChainFrom(_, _, _)
ChainFrom(x, p, fuel) ==
  IF p = NullReq \/ fuel = 0 THEN <<>>
  ELSE <<p>> \o ChainFrom(x, Deref(x, p).next, fuel - 1)

Chain(x) == ChainFrom(x, Req0Ptr, x.msg_cnt + 1)

\* the scatter-gather entries of one request: slots 0 .. data_iovlen - 1
Entries(r) == [k \in 1..r.data_iovlen |-> r.pdata_iov[k - 1]]

RECURSIVE BytesOfEntries(_)
BytesOfEntries(es) ==
  IF es = <<>> THEN 0 ELSE Head(es).len + BytesOfEntries(Tail(es))

RECURSIVE Flatten(_)
Flatten(ss) == IF ss = <<>> THEN <<>> ELSE Head(ss) \o Flatten(Tail(ss))

\* all entries of a frame in chain order, slot order within a request
ChainEntries(x) ==
  LET c == Chain(x) IN Flatten([n \in 1..Len(c) |-> Entries(Deref(x, c[n]))])

\* the message as one fragment list and its size
AllFrags == msg.payload \o msg.middle \o msg.data

TotalBytes == SumSeq(AllFrags)

NonEmptyFrags == Cardinality({i \in 1..Len(AllFrags) : AllFrags[i] > 0})

\* Claim C1: for every message and the caps K and B, the chain send_message
\* submits carries exactly the message's bytes (the lengths of all entries of
\* all requests add up to the lengths of all fragments), and no request of it
\* has more than K entries or more than B bytes.
C1_TotalAndCaps ==
  Submitted =>
    LET c == Chain(Sent) IN
      /\ \A n \in 1..Len(c) : Deref(Sent, c[n]).data_iovlen <= K
      /\ \A n \in 1..Len(c) : BytesOfEntries(Entries(Deref(Sent, c[n]))) <= B
      /\ BytesOfEntries(ChainEntries(Sent)) = TotalBytes

\* a chain of three requests, one closed by the entry cap below the byte cap
\* and one closed by the byte cap, has been submitted
C1_Witness ==
  /\ Submitted
  /\ Len(Chain(Sent)) >= 3
  /\ \E n \in 1..Len(Chain(Sent)) :
       LET r == Deref(Sent, Chain(Sent)[n]) IN
         r.data_iovlen = K /\ BytesOfEntries(Entries(r)) < B
  /\ \E n \in 1..Len(Chain(Sent)) :
       LET r == Deref(Sent, Chain(Sent)[n]) IN
         r.data_iovlen < K /\ BytesOfEntries(Entries(r)) = B

\* Claim C2: send_message on a connection other than the loopback one whose
\* connected flag is false returns ENOTCONN and does nothing else: the count
\* pass has not run, no frame is allocated, nothing is on the portal and
\* nothing is dispatched.
C2_NotConnected ==
  (pc = "returned" /\ con = "xcon" /\ ~connected) =>
    /\ ret = ENOTCONN
    /\ nbuffers = 0 /\ ex_cnt = 0 /\ msg_off = 0 /\ req_off = 0 /\ req_size = 0
    /\ xmsg = NoXioMsg
    /\ req = NullReq
    /\ sendq = <<>>
    /\ dispatched = 0

\* the call has returned on a connection that is not connected, for a
\* message that would have needed several requests
C2_Witness ==
  /\ pc = "returned" /\ con = "xcon" /\ ~connected
  /\ TotalBytes > B

\* Claim C6 as stated: for every message send_message submits, a message
\* with no fragment at all included, no request of the submitted chain has
\* zero scatter-gather entries.
C6_NoEmptyRequest ==
  Submitted =>
    \A n \in 1..Len(Chain(Sent)) : Deref(Sent, Chain(Sent)[n]).data_iovlen > 0

\* Claim C6, amended: for every message with at least one non-empty fragment
\* no request of the submitted chain has zero entries; a message without a
\* non-empty fragment is submitted as the head request alone, carrying the
\* header and zero entries.
C6_NoEmptyRequestUnlessEmptyMessage ==
  Submitted =>
    /\ TotalBytes > 0 =>
         \A n \in 1..Len(Chain(Sent)) : Deref(Sent, Chain(Sent)[n]).data_iovlen > 0
    /\ TotalBytes = 0 =>
         /\ Chain(Sent) = <<Req0Ptr>>
         /\ Sent.req_0.data_iovlen = 0
         /\ Sent.req_0.header

\* a chain has been submitted whose last request was filled exactly, with
\* empty fragments in the message as well
C6_Witness ==
  /\ Submitted
  /\ Len(Chain(Sent)) >= 2
  /\ BytesOfEntries(Entries(Deref(Sent, Chain(Sent)[Len(Chain(Sent))]))) = B
  /\ \E i \in 1..Len(AllFrags) : AllFrags[i] = 0

\* the start of fragment i of the fragment list fr in the byte sequence
FragStart(fr, i) == SumSeq(SubSeq(fr, 1, i - 1))

\* the bytes a .. b - 1 of the fragments fr fit one request: at most B
\* bytes, and at most K fragments have bytes among them
FitsOneRequest(fr, a, b) ==
  /\ b - a <= B
  /\ Cardinality({i \in 1..Len(fr) :
                    /\ fr[i] > 0
                    /\ FragStart(fr, i) < b
                    /\ FragStart(fr, i) + fr[i] > a}) <= K

\* where the request starting at byte c ends under the cut points S of a
\* message of total bytes
CutEnd(S, c, total) ==
  LET later == {d \in S \cup {total} : d > c}
  IN  CHOOSE d \in later : \A d2 \in later : d <= d2

\* the cut points S cut the fragments fr into Cardinality(S) + 1 requests
\* that all fit
CutFits(fr, S) ==
  \A c \in S \cup {0} :
    IF c >= SumSeq(fr) THEN TRUE ELSE FitsOneRequest(fr, c, CutEnd(S, c, SumSeq(fr)))

\* the least number of requests (a chain has its head request at least) the
\* message can be cut into
MinRequests ==
  LET fr == AllFrags
      ns == {Cardinality(S) + 1 : S \in {S2 \in SUBSET (1..(SumSeq(fr) - 1)) : CutFits(fr, S2)}}
  IN  CHOOSE n \in ns : \A n2 \in ns : n <= n2

\* the count pass has just run
Counted == pc = "alloc"

\* Claim C7: the number of requests of the chain, ex_cnt + 1, is the least n
\* such that the message's bytes, payload then middle then data, can be cut
\* in order into n requests of at most K entries (each a piece of one
\* fragment) and at most B bytes; the submitted chain has that many requests.
C7_MinimalChain ==
  /\ Counted => ex_cnt + 1 = MinRequests
  /\ Submitted => Len(Chain(Sent)) = MinRequests

\* a chain of three requests has been submitted for a message that the
\* byte cap alone would let into two
C7_Witness ==
  /\ Submitted
  /\ Len(Chain(Sent)) = 3
  /\ TotalBytes <= 2 * B

\* Claim C8: a message whose fragments amount to at most K entries and at
\* most B bytes is submitted as exactly one request, also with exactly K
\* entries or exactly B bytes; and whenever the count pass ends on a request
\* it has opened and put nothing into, that request is dropped: ex_cnt + 1
\* is the number of requests opened less one, and no request of the
\* submitted chain is that empty one.
C8_OneRequestAndDrop ==
  /\ (Counted /\ NonEmptyFrags <= K /\ TotalBytes <= B) => ex_cnt = 0
  /\ (Submitted /\ NonEmptyFrags <= K /\ TotalBytes <= B) =>
       /\ Sent.msg_cnt = 1
       /\ Chain(Sent) = <<Req0Ptr>>
       /\ Sent.req_0.data_iovlen = NonEmptyFrags
  /\ (pc = "alloc" /\ msg_off = 0 /\ req_off > 0) => ex_cnt + 1 = req_off
  /\ (Submitted /\ TotalBytes > 0) =>
       /\ Len(Chain(Sent)) = ex_cnt + 1
       /\ BytesOfEntries(Entries(Deref(Sent, Chain(Sent)[Len(Chain(Sent))]))) > 0

\* exactly K fragments of exactly B bytes in all have been submitted as one
\* request
C8_Witness ==
  /\ Submitted
  /\ NonEmptyFrags = K
  /\ TotalBytes = B
  /\ Len(Chain(Sent)) = 1

\* the byte ranges a single fragment of length len is cut into
SplitOf(type, len) ==
  [n \in 1..((len + B - 1) \div B) |->
     [type |-> type, frag |-> 1, off |-> (n - 1) * B,
      len  |-> IF n * B <= len THEN B ELSE len - (n - 1) * B]]

\* the message is one fragment of more than B bytes, in the region type
SingleLarge(type) ==
  /\ Len(AllFrags) = 1
  /\ AllFrags[1] > B
  /\ Len(msg[type]) = 1

\* Claim C9: a message that is a single fragment of length L > B is emitted
\* as exactly ceil(L / B) entries, whose byte ranges are contiguous, ascending,
\* do not overlap and cover the fragment exactly.
C9_SingleFragmentSplit ==
  \A type \in {BUFFER_PAYLOAD, BUFFER_MIDDLE, BUFFER_DATA} :
    (Submitted /\ SingleLarge(type)) =>
      LET es == ChainEntries(Sent)
          L  == AllFrags[1]
      IN  /\ Len(es) = (L + B - 1) \div B
          /\ es = SplitOf(type, L)
          /\ es[1].off = 0
          /\ \A n \in 1..(Len(es) - 1) : es[n].off + es[n].len = es[n + 1].off
          /\ es[Len(es)].off + es[Len(es)].len = L

\* a single fragment of more than 2 B bytes, not a multiple of B, has been
\* submitted
C9_Witness ==
  /\ Submitted
  /\ SingleLarge(BUFFER_DATA)
  /\ AllFrags[1] > 2 * B
  /\ AllFrags[1] % B # 0

\* the bytes of fragment i of a region, each named by region, fragment and
\* offset
BytesOfRegion(type) ==
  Flatten([i \in 1..Len(msg[type]) |->
             [k \in 1..msg[type][i] |-> <<type, i, k - 1>>]])

MessageBytes ==
  BytesOfRegion(BUFFER_PAYLOAD) \o BytesOfRegion(BUFFER_MIDDLE) \o BytesOfRegion(BUFFER_DATA)

\* the bytes an entry points at
BytesOfEntry(e) == [k \in 1..e.len |-> <<e.type, e.frag, e.off + k - 1>>]

\* Claim C10: the entries of the submitted chain, read from req_0 along next
\* and in slot order within each request, give the message's bytes in the
\* order payload, middle, data, fragments in their order and the pieces of a
\* split fragment in ascending offset; every entry lies within one fragment.
C10_ChainOrder ==
  Submitted =>
    LET es == ChainEntries(Sent) IN
      /\ \A n \in 1..Len(es) :
           /\ es[n].type \in {BUFFER_PAYLOAD, BUFFER_MIDDLE, BUFFER_DATA}
           /\ es[n].frag \in 1..Len(msg[es[n].type])
           /\ es[n].len > 0
           /\ es[n].off + es[n].len <= msg[es[n].type][es[n].frag]
      /\ Flatten([n \in 1..Len(es) |-> BytesOfEntry(es[n])]) = MessageBytes

\* a chain of three requests carrying bytes of all three regions, one
\* fragment of it split over two requests, has been submitted
C10_Witness ==
  /\ Submitted
  /\ Len(Chain(Sent)) >= 3
  /\ msg.payload # <<>> /\ msg.middle # <<>> /\ msg.data # <<>>
  /\ \A i \in 1..Len(AllFrags) : AllFrags[i] > 0
  /\ \E n \in 1..(Len(ChainEntries(Sent)) - 1) :
       /\ ChainEntries(Sent)[n].type = ChainEntries(Sent)[n + 1].type
       /\ ChainEntries(Sent)[n].frag = ChainEntries(Sent)[n + 1].frag

----------------------------------------------------------------------------
(***************************************************************************)
(* XioMessenger::get_connection (XioMessenger.cc:750-811), one call per    *)
(* thread.  A section of code under conns_sp is one step.                  *)
(***************************************************************************)

Running == fault # "crashed"

\* lines 752-762: the loopback connection for the messenger's own instance,
\* else on to the lookup
GetConnectionCall(t, dest) ==
  /\ Running
  /\ thr[t].pc = "idle"
  /\ IF dest = SelfInst
     THEN thr' = [thr EXCEPT ![t] = [pc |-> "done", dest |-> dest, result |-> LoopCon]]
     ELSE thr' = [thr EXCEPT ![t] = [pc |-> "find", dest |-> dest, result |-> NoConn]]
  /\ UNCHANGED <<sendVars, pkgVars, lockVars, xcons, tconn, conns_list, conns_entity_map, hist, fault>>

\* lines 764-773: lock, find, unlock; a hit returns a reference
GetConnectionFind(t) ==
  /\ Running
  /\ thr[t].pc = "find"
  /\ LET c == EntityFind(conns_entity_map, thr[t].dest)
     IN  IF c # NoConn
         THEN /\ xcons' = [xcons EXCEPT ![c].nref = @ + 1]
              /\ thr' = [thr EXCEPT ![t].pc = "done", ![t].result = c]
         ELSE /\ thr' = [thr EXCEPT ![t].pc = "create"]
              /\ UNCHANGED xcons
  /\ UNCHANGED <<sendVars, pkgVars, lockVars, tconn, conns_list, conns_entity_map, hist, fault>>

\* lines 774-799: new XioConnection, xio_session_create, which may fail,
\* and xio_connect with the connection as user context; from here on the
\* transport delivers events for it
GetConnectionCreate(t) ==
  /\ Running
  /\ thr[t].pc = "create"
  /\ \/ /\ xcons' = [xcons EXCEPT ![ActiveId(t)] = NewXcon("ACTIVE", thr[t].dest)]
        /\ tconn' = [tconn EXCEPT ![ActiveId(t)].state = "connecting"]
        /\ thr' = [thr EXCEPT ![t].pc = "set_connected"]
     \/ /\ thr' = [thr EXCEPT ![t].pc = "done", ![t].result = NoConn]
        /\ UNCHANGED <<xcons, tconn>>
  /\ UNCHANGED <<sendVars, pkgVars, lockVars, conns_list, conns_entity_map, hist, fault>>

\* lines 800-803: connected.set(true) and the sentinel ref
GetConnectionSetConnected(t) ==
  /\ Running
  /\ thr[t].pc = "set_connected"
  /\ xcons' = [xcons EXCEPT ![ActiveId(t)].connected = TRUE,
                            ![ActiveId(t)].nref = @ + 1]
  /\ thr' = [thr EXCEPT ![t].pc = "register"]
  /\ UNCHANGED <<sendVars, pkgVars, lockVars, tconn, conns_list, conns_entity_map, hist, fault>>

\* fault injection: the registration without the insert into the index
GetConnectionRegister_ListOnly(t) ==
  /\ Running
  /\ thr[t].pc = "register"
  /\ conns_list' = Append(conns_list, ActiveId(t))
  /\ thr' = [thr EXCEPT ![t].pc = "return"]
  /\ UNCHANGED <<sendVars, pkgVars, lockVars, xcons, tconn, conns_entity_map, hist, fault>>

\* fault injection: the registration without the push_back onto the list
GetConnectionRegister_MapOnly(t) ==
  /\ Running
  /\ thr[t].pc = "register"
  /\ conns_entity_map' = EntityInsert(conns_entity_map, ActiveId(t))
  /\ thr' = [thr EXCEPT ![t].pc = "return"]
  /\ UNCHANGED <<sendVars, pkgVars, lockVars, xcons, tconn, conns_list, hist, fault>>

\* lines 804-807: lock, push_back, insert, unlock
GetConnectionRegister(t) ==
  /\ Running
  /\ thr[t].pc = "register"
  /\ conns_list' = Append(conns_list, ActiveId(t))
  /\ conns_entity_map' = EntityInsert(conns_entity_map, ActiveId(t))
  /\ thr' = [thr EXCEPT ![t].pc = "return"]
  /\ UNCHANGED <<sendVars, pkgVars, lockVars, xcons, tconn, hist, fault>>

\* line 809: return xcon->get()
GetConnectionReturn(t) ==
  /\ Running
  /\ thr[t].pc = "return"
  /\ xcons' = [xcons EXCEPT ![ActiveId(t)].nref = @ + 1]
  /\ thr' = [thr EXCEPT ![t].pc = "done", ![t].result = ActiveId(t)]
  /\ UNCHANGED <<sendVars, pkgVars, lockVars, tconn, conns_list, conns_entity_map, hist, fault>>

\* fault injection: try_insert into an index that takes a second
\* connection under a peer it already holds
TryInsert_Multi(c) ==
  /\ Running
  /\ xcons[c].alive
  /\ xcons[c].type = "PASSIVE"
  /\ tconn[c].state = "established"
  /\ conns_entity_map' = conns_entity_map \cup {c}
  /\ UNCHANGED <<sendVars, pkgVars, lockVars, xcons, tconn, conns_list, thr, hist, fault>>

\* lines 818-823: try_insert, called for a passive connection once the
\* first message has told who the peer is
TryInsert(c) ==
  /\ Running
  /\ xcons[c].alive
  /\ xcons[c].type = "PASSIVE"
  /\ tconn[c].state = "established"
  /\ conns_entity_map' = EntityInsert(conns_entity_map, c)
  /\ UNCHANGED <<sendVars, pkgVars, lockVars, xcons, tconn, conns_list, thr, hist, fault>>

(***************************************************************************)
(* XioMessenger::session_event (XioMessenger.cc:293-397), one event per    *)
(* step.  The transport delivers the events of one connection one after    *)
(* the other: established after the connect or the new connection, then    *)
(* closed / disconnected / refused, then the teardown of the connection    *)
(* and of its session.                                                     *)
(***************************************************************************)

\* fault injection: the new-connection branch filing the connection in the
\* index as well
NewConnectionEvent_Filed(c, peer) ==
  /\ Running
  /\ ~xcons[c].alive
  /\ tconn[c].state = "none"
  /\ xcons' = [xcons EXCEPT ![c] =
                 [NewXcon("PASSIVE", peer) EXCEPT !.connected = TRUE, !.nref = 1]]
  /\ tconn' = [tconn EXCEPT ![c] = [state |-> "connecting", discs |-> 0]]
  /\ conns_list' = Append(conns_list, c)
  /\ conns_entity_map' = conns_entity_map \cup {c}
  /\ UNCHANGED <<sendVars, pkgVars, lockVars, thr, hist, fault>>

\* XIO_SESSION_NEW_CONNECTION_EVENT, lines 310-352
NewConnectionEvent(c, peer) ==
  /\ Running
  /\ ~xcons[c].alive
  /\ tconn[c].state = "none"
  /\ xcons' = [xcons EXCEPT ![c] =
                 [NewXcon("PASSIVE", peer) EXCEPT !.connected = TRUE, !.nref = 1]]
  /\ tconn' = [tconn EXCEPT ![c] = [state |-> "connecting", discs |-> 0]]
  /\ conns_list' = Append(conns_list, c)
  /\ UNCHANGED <<sendVars, pkgVars, lockVars, conns_entity_map, thr, hist, fault>>

\* XIO_SESSION_CONNECTION_ESTABLISHED_EVENT, lines 300-308
ConnectionEstablishedEvent(c) ==
  /\ Running
  /\ xcons[c].alive
  /\ tconn[c].state = "connecting"
  /\ tconn' = [tconn EXCEPT ![c].state = "established"]
  /\ hist' = [hist EXCEPT ![c].connects = @ + 1]
  /\ UNCHANGED <<sendVars, pkgVars, lockVars, xcons, conns_list, conns_entity_map, thr, fault>>

\* XIO_SESSION_CONNECTION_ERROR_EVENT, lines 353-357: informational, the
\* handler logs the event and touches nothing; the transport delivers it
\* once for a connection
ConnectionErrorEvent(c) ==
  /\ Running
  /\ xcons[c].alive
  /\ tconn[c].state \in {"connecting", "established"}
  /\ tconn' = [tconn EXCEPT ![c].state = "errored"]
  /\ UNCHANGED <<sendVars, pkgVars, lockVars, xcons, conns_list, conns_entity_map, thr, hist, fault>>

\* XIO_SESSION_REJECT_EVENT and XIO_SESSION_ERROR_EVENT, lines 392-393:
\* the default branch; the transport gives up the session of a connect
\* that is under way
OtherSessionEvent(c) ==
  /\ Running
  /\ xcons[c].alive
  /\ xcons[c].type = "ACTIVE"
  /\ tconn[c].state = "connecting"
  /\ tconn' = [tconn EXCEPT ![c].state = "rejected"]
  /\ UNCHANGED <<sendVars, pkgVars, lockVars, xcons, conns_list, conns_entity_map, thr, hist, fault>>

\* the closed / disconnected / refused events delivered so far
RECURSIVE DiscsOf(_)
DiscsOf(cs) ==
  IF cs = {} THEN 0
  ELSE LET c == CHOOSE d \in cs : TRUE IN tconn[c].discs + DiscsOf(cs \ {c})

\* which of the closed / disconnected / refused events the transport may
\* deliver for connection c
MayDisconnect(c, ev) ==
  /\ xcons[c].alive
  /\ DiscsOf(ConnIds) < MaxDiscEvents
  /\ \/ tconn[c].state \in {"established", "errored"} /\ ev \in {"CLOSED", "DISCONNECTED"}
     \/ tconn[c].state = "connecting" /\ xcons[c].type = "ACTIVE" /\ ev = "REFUSED"
     \/ tconn[c].state = "disconnected" /\ ev \in {"CLOSED", "DISCONNECTED"}

\* where the connection is filed when an event finds it
Membership(c) ==
  IF InList(c)
  THEN IF c \in conns_entity_map THEN "both" ELSE "list"
  ELSE IF c \in conns_entity_map THEN "map" ELSE "neither"

\* fault injection: the event handler without the erase from the index
DisconnectMapErase_Keep(map, c) == map

\* fault injection: the erase of whatever is filed under the peer
DisconnectMapErase_ByPeer(map, c) == map \ {EntityFind(map, xcons[c].peer)}

\* lines 366-373: the connection leaves the address index when it is the
\* one filed under its peer
DisconnectMapErase(map, c) ==
  IF EntityFind(map, xcons[c].peer) = c THEN map \ {c} ELSE map

\* XioConnection::on_disconnect_event: the connection is no longer
\* connected and the registry's sentinel reference is released
OnDisconnectEvent(x) == [x EXCEPT !.connected = FALSE, !.nref = @ - 1]

\* XIO_SESSION_CONNECTION_CLOSED_EVENT, _DISCONNECTED_EVENT and
\* _REFUSED_EVENT, lines 358-381
DisconnectEvent(c, ev) ==
  /\ Running
  /\ MayDisconnect(c, ev)
  /\ tconn' = [tconn EXCEPT ![c].state = "disconnected", ![c].discs = @ + 1]
  /\ conns_entity_map' = DisconnectMapErase(conns_entity_map, c)
  /\ IF InList(c)
     THEN /\ conns_list' = ListErase(conns_list, c)
          /\ xcons' = [xcons EXCEPT ![c] = OnDisconnectEvent(@)]
          /\ hist' = [hist EXCEPT
               ![c].map_erased = @ + (IF conns_entity_map' # conns_entity_map THEN 1 ELSE 0),
               ![c].list_erased = @ + 1,
               ![c].disc_calls = @ + 1,
               ![c].at_disc = IF @ = "none" THEN Membership(c) ELSE @]
          /\ UNCHANGED fault
     ELSE \* conns_list.erase of a connection that is not on the list is
          \* undefined: the process dies there, or the erase is lost and
          \* the handler goes on
          \/ /\ fault' = "crashed"
             /\ hist' = [hist EXCEPT
                  ![c].map_erased = @ + (IF conns_entity_map' # conns_entity_map THEN 1 ELSE 0),
                  ![c].at_disc = IF @ = "none" THEN Membership(c) ELSE @]
             /\ UNCHANGED <<conns_list, xcons>>
          \/ /\ UNCHANGED fault
             /\ xcons' = [xcons EXCEPT ![c] = OnDisconnectEvent(@)]
             /\ hist' = [hist EXCEPT
                  ![c].map_erased = @ + (IF conns_entity_map' # conns_entity_map THEN 1 ELSE 0),
                  ![c].disc_calls = @ + 1,
                  ![c].at_disc = IF @ = "none" THEN Membership(c) ELSE @]
             /\ UNCHANGED conns_list
  /\ UNCHANGED <<sendVars, pkgVars, lockVars, thr>>

\* XIO_SESSION_CONNECTION_TEARDOWN_EVENT, lines 382-387:
\* XioConnection::on_teardown_event destroys the transport connection,
\* which the registry does not look at
ConnectionTeardownEvent(c) ==
  /\ Running
  /\ xcons[c].alive
  /\ tconn[c].state \in {"disconnected", "rejected"}
  /\ UNCHANGED vars

\* XIO_SESSION_TEARDOWN_EVENT, lines 388-391: xio_session_destroy, a call
\* into the transport that leaves the messenger's state as it is
SessionTeardownEvent(c) ==
  /\ Running
  /\ tconn[c].state \in {"disconnected", "rejected"}
  /\ UNCHANGED vars

\* the messages a caller sends over the connection it got
LoopMessages == {MessageOf(<<>>, 0, 0), MessageOf(<<B + 1>>, 0, 1)}

\* lines 605-606: a caller that got the loopback connection from
\* get_connection calls send_message(m, con) with it
SendMessageCall(t) ==
  /\ Running
  /\ pc = "idle"
  /\ thr[t].pc = "done"
  /\ thr[t].result = LoopCon
  /\ \E m \in LoopMessages : msg' = m
  /\ con' = "loop_con"
  /\ pc' = "entry"
  /\ UNCHANGED <<regVars, pkgVars, lockVars, connected, msg_off, req_off, req_size, nbuffers,
                 ex_cnt, xmsg, req, sendq, dispatched, ret, trap>>

InitReg ==
  /\ RegIdle
  /\ PkgReady
  /\ msg = MessageOf(<<>>, 0, 0)
  /\ con = "loop_con"
  /\ connected = TRUE
  /\ pc = "idle"
  /\ msg_off = 0
  /\ req_off = 0
  /\ req_size = 0
  /\ nbuffers = 0
  /\ ex_cnt = 0
  /\ xmsg = NoXioMsg
  /\ req = NullReq
  /\ sendq = <<>>
  /\ dispatched = 0
  /\ ret = "none"
  /\ trap = FALSE

NextReg ==
  \/ \E t \in Threads : \E dest \in DestsOf(t) : GetConnectionCall(t, dest)
  \/ \E t \in Threads : GetConnectionFind(t)
  \/ \E t \in Threads : GetConnectionCreate(t)
  \/ \E t \in Threads : GetConnectionSetConnected(t)
  \/ \E t \in Threads : GetConnectionRegister(t)
  \/ \E t \in Threads : GetConnectionReturn(t)
  \/ \E c \in PassiveIds : TryInsert(c)
  \/ \E c \in PassiveIds : \E peer \in Addrs : NewConnectionEvent(c, peer)
  \/ \E c \in ConnIds : ConnectionEstablishedEvent(c)
  \/ \E c \in ConnIds : ConnectionErrorEvent(c)
  \/ \E c \in ConnIds : OtherSessionEvent(c)
  \/ \E c \in ConnIds : \E ev \in {"CLOSED", "DISCONNECTED", "REFUSED"} : DisconnectEvent(c, ev)
  \/ \E c \in ConnIds : ConnectionTeardownEvent(c)
  \/ \E c \in ConnIds : SessionTeardownEvent(c)
  \/ \E t \in Threads : SendMessageCall(t)
  \/ SendLoopback

SpecReg == InitReg /\ [][NextReg]_vars

----------------------------------------------------------------------------
(***************************************************************************)
(* Claims about the registry                                               *)
(***************************************************************************)

\* the connection has seen the established event and then one closed /
\* disconnected / refused event, which found it filed as where
OneDisconnectAt(c, where) ==
  /\ xcons[c].alive
  /\ hist[c].connects = 1
  /\ tconn[c].discs = 1
  /\ hist[c].at_disc = where

\* C3: a connection filed in the list and in the index that gets the
\* established event and then one closed / disconnected / refused event
\* has been taken off the list once and out of the index once, its
\* on_disconnect_event has run once, and it is in neither structure from
\* then on.  (One that the event finds on the list only, the index holding
\* no entry for it, leaves the list once, is notified once and is in
\* neither structure as well.)
C3_RemovedOnceAndNotified ==
  \A c \in ConnIds :
    /\ OneDisconnectAt(c, "both") =>
         /\ hist[c].list_erased = 1
         /\ hist[c].map_erased = 1
         /\ hist[c].disc_calls = 1
         /\ ~xcons[c].connected
         /\ ~InList(c)
         /\ c \notin conns_entity_map
    /\ OneDisconnectAt(c, "list") =>
         /\ hist[c].list_erased = 1
         /\ hist[c].map_erased = 0
         /\ hist[c].disc_calls = 1
         /\ ~InList(c)
         /\ c \notin conns_entity_map

\* a connection get_connection registered and returned, established and
\* then closed, now in neither structure
C3_Witness ==
  \E t \in Threads :
    /\ thr[t].pc = "done"
    /\ thr[t].result = ActiveId(t)
    /\ OneDisconnectAt(ActiveId(t), "both")
    /\ hist[ActiveId(t)].list_erased = 1
    /\ hist[ActiveId(t)].map_erased = 1
    /\ hist[ActiveId(t)].disc_calls = 1
    /\ ~InList(ActiveId(t))
    /\ ActiveId(t) \notin conns_entity_map

\* the connections the index holds for a peer address
FiledUnder(a) == {c \in conns_entity_map : xcons[c].peer = a}

AllCallsReturned ==
  /\ \A t \in Threads :
       /\ thr[t].pc = "done"
       /\ thr[t].dest \in Addrs
       /\ thr[t].result # NoConn
  /\ \A t, u \in Threads : t # u => thr[t].dest # thr[u].dest
  /\ \A c \in PassiveIds : ~xcons[c].alive
  /\ DiscsOf(ConnIds) = 0

\* C5: after concurrent get_connection calls for pairwise distinct remote
\* addresses have all returned, sessions created, the list holds one
\* connection per call and a lookup of each address finds the connection
\* returned to its caller, a different one for each address
C5_DistinctPeers ==
  AllCallsReturned =>
    /\ Len(conns_list) = Cardinality(Threads)
    /\ \A t \in Threads :
         /\ thr[t].result = ActiveId(t)
         /\ InList(thr[t].result)
         /\ EntityFind(conns_entity_map, thr[t].dest) = thr[t].result
         /\ xcons[thr[t].result].peer = thr[t].dest
    /\ \A t, u \in Threads : t # u => thr[t].result # thr[u].result

C5_Witness ==
  /\ AllCallsReturned
  /\ Len(conns_list) = Cardinality(Threads)
  /\ \A t \in Threads : EntityFind(conns_entity_map, thr[t].dest) = ActiveId(t)

\* the step is the loopback branch of send_message
LoopbackSendStep == pc = "entry" /\ con = "loop_con" /\ pc' = "returned"

\* the step is get_connection called with the messenger's own instance
LoopbackGetStep(t) == thr[t].pc = "idle" /\ thr'[t].dest = SelfInst

\* C11: get_connection for the messenger's own instance returns the
\* loopback connection and constructs nothing, and send_message on the
\* loopback connection dispatches the message once and returns; both leave
\* the list, the index, the connections, their sessions and the portal
\* queue as they are, and the send runs neither the count pass nor the
\* place pass (no buffer counted, no frame allocated)
C11_Loopback ==
  /\ [][ /\ LoopbackSendStep =>
             /\ dispatched' = dispatched + 1
             /\ UNCHANGED <<conns_list, conns_entity_map, xcons, tconn, sendq,
                            nbuffers, ex_cnt, xmsg, req>>
         /\ \A t \in Threads : LoopbackGetStep(t) =>
             /\ thr'[t].pc = "done"
             /\ thr'[t].result = LoopCon
             /\ UNCHANGED <<conns_list, conns_entity_map, xcons, tconn, sendq>>
       ]_vars
  /\ [](pc = "returned" /\ con = "loop_con" =>
          /\ dispatched = 1
          /\ sendq = <<>>
          /\ nbuffers = 0
          /\ xmsg = NoXioMsg)

\* a caller got the loopback connection and its message has been
\* dispatched, while another caller's connection is filed in the registry
C11_Witness ==
  /\ pc = "returned"
  /\ con = "loop_con"
  /\ dispatched = 1
  /\ msg = MessageOf(<<B + 1>>, 0, 1)
  /\ \E t \in Threads : thr[t].pc = "done" /\ thr[t].result = LoopCon
  /\ conns_list # <<>>
  /\ conns_entity_map # {}

\* the step handles a reject / session-error / connection-error event for
\* connection c, or a refused event for its connect
ErrorEventStep(c) ==
  \/ tconn[c].state \in {"connecting", "established"} /\ tconn'[c].state = "errored"
  \/ tconn[c].state = "connecting" /\ tconn'[c].state = "rejected"
  \/ tconn[c].state = "connecting" /\ tconn'[c].state = "disconnected"

\* C12: when session_event has handled a session-reject, connection-refused,
\* connection-error or session-error event for a connection, the connection
\* is no longer connected and is in neither the list nor the index, so a
\* lookup of its peer does not return it; and the handler has constructed
\* no connection
C12_ErrorLeavesRegistry ==
  [][\A c \in ConnIds : ErrorEventStep(c) =>
        /\ ~xcons'[c].connected
        /\ ~InList(c)'
        /\ c \notin conns_entity_map'
        /\ EntityFind(conns_entity_map, xcons[c].peer)' # c
        /\ \A d \in ConnIds : xcons'[d].alive = xcons[d].alive
    ]_vars

\* the handles on connection c that get_connection has returned to callers
Handles(c) == Cardinality({t \in Threads : thr[t].pc = "done" /\ thr[t].result = c})

\* the registry's sentinel reference on c: held while c is on the list, and
\* by the call that has taken it at line 803 and is about to list c
Sentinel(c) ==
  IF InList(c) \/ \E t \in Threads : ActiveId(t) = c /\ thr[t].pc = "register"
  THEN 1 ELSE 0

\* C13: in every state the reference count of a connection is the
\* registry's one sentinel reference, held from the listing of the
\* connection until disconnect handling takes it off the list, plus the
\* handles held by callers
C13_SentinelAccounting ==
  \A c \in ConnIds : xcons[c].alive => xcons[c].nref = Sentinel(c) + Handles(c)

\* the step handles a closed / disconnected / refused event for c
DisconnectStep(c) == tconn'[c].discs = tconn[c].discs + 1

\* C17: a closed / disconnected / refused event for a connection that is
\* not on the list (one that was never listed, or that an earlier event has
\* taken off) is handled to its end without a removal: the handler returns
\* and the list and the index are as they were
C17_RemovalOnlyIfMember ==
  [][\A c \in ConnIds : DisconnectStep(c) /\ ~InList(c) =>
        /\ conns_list' = conns_list
        /\ (c \notin conns_entity_map => conns_entity_map' = conns_entity_map)
        /\ fault' = fault
    ]_vars

----------------------------------------------------------------------------
(***************************************************************************)
(* Concurrent construction                                                 *)
(***************************************************************************)

\* process start: the statics zeroed, every constructor at the test of
\* line 211, no messenger in use yet
InitPkg ==
  /\ initialized = 0
  /\ mtx = {}
  /\ ctor = [t \in Ctors |-> "check"]
  /\ pkg = NoPkg
  /\ nInstances = 0
  /\ LockIdle
  /\ RegIdle
  /\ msg = MessageOf(<<>>, 0, 0)
  /\ con = "loop_con"
  /\ connected = TRUE
  /\ pc = "idle"
  /\ msg_off = 0
  /\ req_off = 0
  /\ req_size = 0
  /\ nbuffers = 0
  /\ ex_cnt = 0
  /\ xmsg = NoXioMsg
  /\ req = NullReq
  /\ sendq = <<>>
  /\ dispatched = 0
  /\ ret = "none"
  /\ trap = FALSE

NextPkg ==
  \/ \E t \in Ctors : CtorCheck(t)
  \/ \E t \in Ctors : CtorLock(t)
  \/ \E t \in Ctors : CtorRecheck(t)
  \/ \E t \in Ctors : CtorXioInit(t)
  \/ \E t \in Ctors : CtorMempool(t)
  \/ \E t \in Ctors : CtorOps(t)
  \/ \E t \in Ctors : CtorMark(t)
  \/ \E t \in Ctors : CtorUnlock(t)
  \/ \E t \in Ctors : CtorFinish(t)

SpecPkg == InitPkg /\ [][NextPkg]_vars

\* the package initialization body has run to its end
BodyDone == pkg = [xio_init |-> 1, mempool |-> 1, ops |-> 1] /\ initialized = 1

\* C14: with constructors running concurrently, no step of the package
\* initialization body (transport init and options, memory pool, callback
\* table) runs a second time, and a constructor that is past the
\* initialization block finds the body run once and to its end
C14_InitOnce ==
  /\ pkg.xio_init <= 1
  /\ pkg.mempool <= 1
  /\ pkg.ops <= 1
  /\ \A t \in Ctors : ctor[t] \in {"after", "done"} => BodyDone

\* one constructor is through, and another, which found the flag clear at
\* line 211, holds the lock and is about to find the flag set
C14_Witness ==
  /\ \E t \in Ctors : ctor[t] = "recheck" /\ initialized = 1 /\ mtx = {t}
  /\ \E t \in Ctors : ctor[t] = "done"
  /\ BodyDone

----------------------------------------------------------------------------
(***************************************************************************)
(* The registry lock conns_sp: the operations that touch conns_list and    *)
(* conns_entity_map, statement by statement.  A statement is the taking    *)
(* or the release of the lock, an access to one of the two structures, a   *)
(* call into the transport, or a call into the connection.                 *)
(***************************************************************************)

Stmt(kind, what) == [kind |-> kind, what |-> what]

\* get_connection, the lookup finds the peer: lines 764-770
GetConnectionHitPath ==
  << Stmt("lock", "conns_sp.lock"),
     Stmt("reg", "conns_entity_map.find"),
     Stmt("reg", "&(*conn_iter)"),
     Stmt("unlock", "conns_sp.unlock") >>

\* get_connection, the lookup misses and xio_session_create fails:
\* lines 764-793
GetConnectionFailPath ==
  << Stmt("lock", "conns_sp.lock"),
     Stmt("reg", "conns_entity_map.find"),
     Stmt("unlock", "conns_sp.unlock"),
     Stmt("xio", "xio_session_create") >>

\* fault injection: the miss branch without its unlock
GetConnectionMissPath_NoUnlock ==
  << Stmt("lock", "conns_sp.lock"),
     Stmt("reg", "conns_entity_map.find"),
     Stmt("xio", "xio_session_create"),
     Stmt("xio", "xio_connect"),
     Stmt("reg", "conns_list.push_back"),
     Stmt("reg", "conns_entity_map.insert"),
     Stmt("unlock", "conns_sp.unlock") >>

\* get_connection, the lookup misses and the connection is made and
\* registered: lines 764-809
GetConnectionMissPath ==
  << Stmt("lock", "conns_sp.lock"),
     Stmt("reg", "conns_entity_map.find"),
     Stmt("unlock", "conns_sp.unlock"),
     Stmt("xio", "xio_session_create"),
     Stmt("xio", "xio_connect"),
     Stmt("lock", "conns_sp.lock"),
     Stmt("reg", "conns_list.push_back"),
     Stmt("reg", "conns_entity_map.insert"),
     Stmt("unlock", "conns_sp.unlock") >>

\* try_insert: lines 818-823, the Locker taking the lock at its
\* construction and releasing it at the end of the function
TryInsertPath ==
  << Stmt("lock", "Spinlock::Locker"),
     Stmt("reg", "conns_entity_map.insert"),
     Stmt("unlock", "~Locker") >>

\* session_event, XIO_SESSION_NEW_CONNECTION_EVENT: lines 310-352
NewConnectionPath ==
  << Stmt("xio", "xio_query_connection"),
     Stmt("xio", "xio_query_context"),
     Stmt("xio", "xio_modify_connection"),
     Stmt("lock", "conns_sp.lock"),
     Stmt("reg", "conns_list.push_back"),
     Stmt("unlock", "conns_sp.unlock") >>

\* session_event, closed / disconnected / refused, the connection being
\* the one filed under its peer: lines 358-381
DisconnectErasePath ==
  << Stmt("lock", "Spinlock::Locker"),
     Stmt("reg", "conns_entity_map.find"),
     Stmt("reg", "conns_entity_map.erase"),
     Stmt("reg", "conns_list.erase"),
     Stmt("call", "xcon->on_disconnect_event"),
     Stmt("unlock", "~Locker") >>

\* the same, the index holding no entry or another connection for the peer
DisconnectKeepPath ==
  << Stmt("lock", "Spinlock::Locker"),
     Stmt("reg", "conns_entity_map.find"),
     Stmt("reg", "conns_list.erase"),
     Stmt("call", "xcon->on_disconnect_event"),
     Stmt("unlock", "~Locker") >>

\* session_event, XIO_SESSION_TEARDOWN_EVENT: lines 388-391
SessionTeardownPath == << Stmt("xio", "xio_session_destroy") >>

PathNames ==
  {"get_connection hit", "get_connection fail", "get_connection miss",
   "try_insert", "new_connection", "disconnect erase", "disconnect keep",
   "session_teardown"}

PathOf(name) ==
  CASE name = "get_connection hit" -> GetConnectionHitPath
    [] name = "get_connection fail" -> GetConnectionFailPath
    [] name = "get_connection miss" -> GetConnectionMissPath
    [] name = "try_insert" -> TryInsertPath
    [] name = "new_connection" -> NewConnectionPath
    [] name = "disconnect erase" -> DisconnectErasePath
    [] name = "disconnect keep" -> DisconnectKeepPath
    [] name = "session_teardown" -> SessionTeardownPath
    [] OTHER -> << >>

\* the kind of the statement worker w is at, "end" past the last one
AtKind(w) ==
  LET path == PathOf(work[w].path)
  IN  IF work[w].path = "none" THEN "none"
      ELSE IF work[w].at > Len(path) THEN "end"
      ELSE path[work[w].at].kind

Advance(w) == work' = [work EXCEPT ![w].at = @ + 1]

\* a worker enters one of the operations
WorkStart(w, name) ==
  /\ work[w].path = "none"
  /\ work' = [work EXCEPT ![w] = [path |-> name, at |-> 1]]
  /\ UNCHANGED <<sendVars, regVars, pkgVars, conns_sp>>

\* conns_sp.lock(): spins until the lock is free
WorkLock(w) ==
  /\ AtKind(w) = "lock"
  /\ conns_sp = {}
  /\ conns_sp' = {w}
  /\ Advance(w)
  /\ UNCHANGED <<sendVars, regVars, pkgVars>>

\* conns_sp.unlock()
WorkUnlock(w) ==
  /\ AtKind(w) = "unlock"
  /\ conns_sp' = conns_sp \ {w}
  /\ Advance(w)
  /\ UNCHANGED <<sendVars, regVars, pkgVars>>

\* a read or a mutation of conns_list or conns_entity_map
WorkRegistry(w) ==
  /\ AtKind(w) = "reg"
  /\ Advance(w)
  /\ UNCHANGED <<sendVars, regVars, pkgVars, conns_sp>>

\* a call into the transport, which returns
WorkTransport(w) ==
  /\ AtKind(w) = "xio"
  /\ Advance(w)
  /\ UNCHANGED <<sendVars, regVars, pkgVars, conns_sp>>

\* a call into the connection
WorkCall(w) ==
  /\ AtKind(w) = "call"
  /\ Advance(w)
  /\ UNCHANGED <<sendVars, regVars, pkgVars, conns_sp>>

\* the operation returns
WorkReturn(w) ==
  /\ AtKind(w) = "end"
  /\ work' = [work EXCEPT ![w] = [path |-> "none", at |-> 1]]
  /\ UNCHANGED <<sendVars, regVars, pkgVars, conns_sp>>

NextLock ==
  \/ \E w \in Workers : \E name \in PathNames : WorkStart(w, name)
  \/ \E w \in Workers : WorkLock(w)
  \/ \E w \in Workers : WorkUnlock(w)
  \/ \E w \in Workers : WorkRegistry(w)
  \/ \E w \in Workers : WorkTransport(w)
  \/ \E w \in Workers : WorkCall(w)
  \/ \E w \in Workers : WorkReturn(w)

SpecLock == InitReg /\ [][NextLock]_vars

\* C15: a worker that is at a read or a mutation of the list or the index
\* holds conns_sp, a worker that is at a call into the transport does not,
\* and the lock has one holder at most
C15_LockDiscipline ==
  /\ \A w \in Workers :
       /\ AtKind(w) = "reg" => w \in conns_sp
       /\ AtKind(w) = "xio" => w \notin conns_sp
       /\ AtKind(w) \in {"none", "end"} => w \notin conns_sp
  /\ Cardinality(conns_sp) <= 1

\* one worker is at xio_connect in get_connection while the other, in the
\* disconnect branch of session_event, is at the erase from the list with
\* the lock held
C15_Witness ==
  \E w, v \in Workers :
    /\ work[w].path = "get_connection miss"
    /\ PathOf(work[w].path)[work[w].at].what = "xio_connect"
    /\ work[v].path = "disconnect erase"
    /\ AtKind(v) = "reg"
    /\ PathOf(work[v].path)[work[v].at].what = "conns_list.erase"
    /\ conns_sp = {v}

\* C16: when a closed / disconnected / refused event is handled for a
\* listed connection X while another connection Y is filed in the index
\* under the same peer address, Y stays in the index and on the list and a
\* lookup of the address still returns Y; the list loses X and nothing
\* else, and the index is as it was
C16_OtherStaysFiled ==
  [][\A X, Y \in ConnIds :
        ( /\ X # Y
          /\ DisconnectStep(X)
          /\ InList(X)
          /\ Y \in conns_entity_map
          /\ xcons[Y].peer = xcons[X].peer ) =>
        /\ Y \in conns_entity_map'
        /\ InList(Y)'
        /\ EntityFind(conns_entity_map, xcons[X].peer)' = Y
        /\ conns_list' = ListErase(conns_list, X)
        /\ conns_entity_map' = conns_entity_map
    ]_vars

\* two callers have made connections X and Y to one peer, Y holds the
\* index, and X, which was on the list only, has been taken off by its
\* disconnect event
C16_Witness ==
  \E t, u \in Threads :
    /\ t # u
    /\ thr[t].dest = thr[u].dest
    /\ \A c \in PassiveIds : ~xcons[c].alive
    /\ hist[ActiveId(t)].at_disc = "list"
    /\ tconn[ActiveId(t)].discs = 1
    /\ ~InList(ActiveId(t))
    /\ tconn[ActiveId(u)].discs = 0
    /\ InList(ActiveId(u))
    /\ EntityFind(conns_entity_map, thr[u].dest) = ActiveId(u)

\* the step has the shape of try_insert(c): the insert into the index and
\* nothing else
TryInsertStep(c) ==
  /\ xcons[c].alive
  /\ conns_entity_map' = EntityInsert(conns_entity_map, c)
  /\ UNCHANGED <<conns_list, xcons, tconn, thr, hist, fault>>

\* C18: the handling of a new-connection event leaves the passive
\* connection on the list and out of the index; it stays on the list as
\* long as no closed / disconnected event has been handled for it; and it
\* is not in the index, nor returned by a lookup of its peer, in any state
\* before a try_insert for it: the one step that files it is try_insert
C18_PassiveListedNotFiled ==
  /\ [](\A c \in PassiveIds :
          /\ xcons[c].alive /\ tconn[c].discs = 0 => InList(c)
          /\ c \in conns_entity_map => xcons[c].alive)
  /\ [][\A c \in PassiveIds :
          /\ (~xcons[c].alive /\ xcons'[c].alive) =>
               /\ InList(c)'
               /\ c \notin conns_entity_map'
               /\ EntityFind(conns_entity_map, xcons[c].peer)' # c
          /\ (c \notin conns_entity_map /\ c \in conns_entity_map') =>
               TryInsertStep(c)
       ]_vars

\* an accepted connection, established, on the list behind a caller's
\* connection, with no try_insert made and its peer not in the index
C18_Witness ==
  \E c \in PassiveIds :
    /\ xcons[c].alive
    /\ tconn[c].state = "established"
    /\ InList(c)
    /\ Len(conns_list) > 1
    /\ c \notin conns_entity_map
    /\ EntityFind(conns_entity_map, xcons[c].peer) = NoConn

----------------------------------------------------------------------------
(***************************************************************************)
(* Claims about the two passes and the batch marks                         *)
(***************************************************************************)

\* the requests of a frame in the order of allocation: req_0, then req_arr
Requests(x) == <<x.req_0>> \o x.req_arr

\* what the place pass decided, read off the frame: for each entry its
\* length and whether the request was closed after it
PlaceDecisions(x) ==
  Flatten([n \in 1..Len(Requests(x)) |->
             LET r == Requests(x)[n]
             IN  [k \in 1..r.data_iovlen |->
                    <<r.pdata_iov[k - 1].len,
                      k = r.data_iovlen /\ r.more_in_batch = 1>>]])

\* the number of slots of a frame that have been written to
RECURSIVE WrittenSlots(_)
WrittenSlots(rs) ==
  IF rs = <<>> THEN 0
  ELSE Cardinality({k \in 0..(K - 1) : Head(rs).pdata_iov[k] # NoIov})
       + WrittenSlots(Tail(rs))

\* the place pass and the finalization of the last request are done
Placed == pc = "link" \/ (Submitted /\ con = "xcon")

\* C19: the place pass takes the decisions of the count pass, entry by
\* entry: the same lengths and the same request boundaries.  The frame has
\* ex_cnt requests after req_0; every entry the count pass counted has
\* been written to a slot 0..K-1 of one of these requests, none through the
\* null request pointer; and each of the ex_cnt + 1 requests has got an
\* entry (a message without a byte has nothing to place)
C19_PassesAgree ==
  /\ ~trap
  /\ pc # "fault"
  /\ Placed =>
       /\ PlaceDecisions(xmsg) = CountDecisions(msg)
       /\ Len(xmsg.req_arr) = ex_cnt
       /\ WrittenSlots(Requests(xmsg)) = nbuffers
       /\ \A n \in 1..Len(Requests(xmsg)) :
            /\ Requests(xmsg)[n].data_iovlen <= K
            /\ TotalBytes > 0 => Requests(xmsg)[n].data_iovlen >= 1

\* a submitted frame whose last allocated request was filled to the brim,
\* so that the place pass ended on the null request pointer
C19_Witness ==
  /\ Submitted
  /\ ex_cnt >= 1
  /\ xmsg.req_arr[ex_cnt].more_in_batch = 1
  /\ Len(CountDecisions(msg)) > ex_cnt + 1
  /\ ~trap

\* C20: in a submitted chain a request with more_in_batch = 1 is linked to
\* a following request; the last request of the chain does not carry the
\* mark
C20_MoreInBatchOnlyIfLinked ==
  Submitted =>
    \A n \in 1..Len(Chain(Sent)) :
      Deref(Sent, Chain(Sent)[n]).more_in_batch = 1 =>
        /\ n < Len(Chain(Sent))
        /\ Deref(Sent, Chain(Sent)[n]).next = Chain(Sent)[n + 1]

\* the connections on the list whose peer is a
ListedFor(a) == {c \in ConnIds : InList(c) /\ xcons[c].peer = a}

\* two callers have returned from get_connection calls for the same remote
\* address with a connection each, and nothing but the calls has touched
\* the registry
SamePeerCallsReturned(t, u) ==
  /\ t # u
  /\ thr[t].pc = "done"
  /\ thr[u].pc = "done"
  /\ thr[t].dest \in Addrs
  /\ thr[t].dest = thr[u].dest
  /\ thr[t].result # NoConn
  /\ thr[u].result # NoConn
  /\ \A c \in PassiveIds : ~xcons[c].alive
  /\ DiscsOf(ConnIds) = 0

\* C21: two get_connection calls for the same remote address that is not
\* registered yet, running on different threads, return the same
\* connection, and one connection is constructed and listed for the peer
C21_SamePeerSameConnection ==
  \A t, u \in Threads :
    SamePeerCallsReturned(t, u) =>
      /\ thr[t].result = thr[u].result
      /\ Cardinality(ListedFor(thr[t].dest)) = 1
      /\ Cardinality({c \in ConnIds : xcons[c].alive}) = 1

C23_GoneOnceDisconnected ==
  \A t \in Threads :
    tconn[ActiveId(t)].discs >= 1 =>
      /\ ~InList(ActiveId(t))
      /\ ActiveId(t) \notin conns_entity_map

====
